---- MODULE Spec2Model ----
(***************************************************************************)
(* Model of src/logger.hpp: the static class Logger, its process-wide      *)
(* configuration (stream_type_, log_type_), the two configuration calls    *)
(* and the four emit calls, together with the three places an emit can     *)
(* write to: std::cout, std::cerr and the file "log.txt".                   *)
(*                                                                         *)
(* A stream is the sequence of the texts inserted into it with operator<<, *)
(* in order; std::endl inserts "\n".                                       *)
(***************************************************************************)
EXTENDS Integers, Sequences, FiniteSets, TLC

VARIABLES stream_type_, log_type_, cout, cerr, log_file, openable, last

vars == <<stream_type_, log_type_, cout, cerr, log_file, openable, last>>

(* ------------------------------ bounds -------------------------------- *)

\* the model follows the program until it has written MaxLines lines in all
MaxLines == 2
\* SetLogType is called with every initializer_list of at most MaxList elements
MaxList == 1

(* ------------------------------ types --------------------------------- *)

NONE == "NONE"
CONSOLE == "CONSOLE"
FILE == "FILE"
StreamType == {NONE, CONSOLE, FILE}

INFO == "INFO"
DEBUG == "DEBUG"
SUCCESS == "SUCCESS"
ERROR == "ERROR"
ALL == "ALL"
LogType == {INFO, DEBUG, SUCCESS, ERROR, ALL}

console == CONSOLE
file == FILE
info == INFO
debug == DEBUG
success == SUCCESS
error == ERROR
all == ALL

error_type == "[ERROR]:"
debug_type == "[DEBUG]:"
success_type == "[SUCCESS]:"
error_type_color == "\\033[31m[ERROR]:\\033[0m"
debug_type_color == "\\033[33m[DEBUG]:\\033[0m"
success_type_color == "\\033[32m[SUCCESS]:\\033[0m"

(* ------------------- arguments of the emit calls ----------------------- *)

\* An argument of LogRecursive: a C string, an int or the std::put_time
\* manipulator returned by CurrentTime().
Text(s) == [kind |-> "str", s |-> s, i |-> 0]
Num(i) == [kind |-> "int", s |-> "", i |-> i]

\* the variadic packs the callers pass: LOG_INFO("a", 1), LOG_ERROR("boom")
ArgPacks == {<<Text("a"), Num(1)>>, <<Text("boom")>>}
FunctionNames == {"main"}
FileNames == {"x.cpp"}
LineNumbers == {10}

\* operator<< on an int: its decimal text
IntText(i) ==
    CASE i = 1 -> "1"
      [] i = 10 -> "10"
      [] OTHER -> "0"

\* operator<< on put_time(gmtime(&t), "[%Y-%m-%d %H:%M:%S]")
TimeText(t) ==
    CASE t = 0 -> "[2026-11-02 00:00:00]"
      [] t = 1 -> "[2026-11-02 00:00:01]"
      [] t = 2 -> "[2026-11-02 00:00:02]"
      [] OTHER -> "[2026-11-02 00:00:03]"

\* stream << item
Insert(item) ==
    CASE item.kind = "str" -> item.s
      [] item.kind = "int" -> IntText(item.i)
      [] OTHER -> TimeText(item.i)

\* the instants std::chrono::system_clock::now() may return
Clock == {0, 1}

CurrentTime(now) == [kind |-> "time", s |-> "", i |-> now]

\* variant: a separator only between neighbouring items
RECURSIVE LogRecursive_NoTrailingSpace(_, _)
LogRecursive_NoTrailingSpace(stream, items) ==
    IF items = <<>>
    THEN Append(stream, "\n")
    ELSE IF Len(items) = 1
    THEN Append(Append(stream, Insert(Head(items))), "\n")
    ELSE LogRecursive_NoTrailingSpace(Append(Append(stream, Insert(Head(items))), " "), Tail(items))

RECURSIVE LogRecursive(_, _)
LogRecursive(stream, items) ==
    IF items = <<>>
    THEN Append(stream, "\n")
    ELSE LogRecursive(Append(Append(stream, Insert(Head(items))), " "), Tail(items))

(* ---------------------------- bookkeeping ------------------------------ *)

\* the call that produced the current state
Call(op, st, list, fl, fn, ln, args) ==
    [op |-> op, stream |-> st, list |-> list, file_name |-> fl,
     function_name |-> fn, line |-> ln, args |-> args]

NoCall == Call("none", NONE, <<>>, "", "", 0, <<>>)

NumLines(stream) == Cardinality({k \in DOMAIN stream : stream[k] = "\n"})

Running == NumLines(cout) + NumLines(cerr) + NumLines(log_file) < MaxLines

\* longer lists callers pass: two categories, one category twice, all four by name
TypicalLists == {<<error, debug>>, <<info, info>>, <<info, debug, success, error>>}

Lists == UNION {[1..n -> LogType] : n \in 0..MaxList} \cup TypicalLists

RECURSIVE InsertAll(_, _)
InsertAll(set, list) ==
    IF list = <<>> THEN set ELSE InsertAll(set \cup {Head(list)}, Tail(list))

(* ------------------------------- state --------------------------------- *)

\* what "log.txt" may hold when the process starts: nothing, or a line of an earlier run
PriorLogFiles == {<<>>, <<"[2026-11-01 23:59:59]", " ", success_type, " ", "main", " ", "\n">>}

Init ==
    /\ stream_type_ = console
    /\ log_type_ = {all}
    /\ cout = <<>>
    /\ cerr = <<>>
    /\ log_file \in PriorLogFiles
    /\ openable \in BOOLEAN
    /\ last = NoCall

\* the file system changes under the program: "log.txt" becomes (un)openable
Chmod(b) ==
    /\ Running
    /\ openable' = b
    /\ last' = Call("chmod", NONE, <<>>, "", "", 0, <<>>)
    /\ UNCHANGED <<stream_type_, log_type_, cout, cerr, log_file>>

\* variant: the result of the open is not looked at
is_open_Unchecked == TRUE

\* std::ofstream log_file(log_file_name, binary | app); log_file.is_open()
is_open == openable

\* variant: selecting a sink also restores the default categories
SetStream_ResetsLogType(stream_type) ==
    /\ Running
    /\ stream_type_' = stream_type
    /\ log_type_' = {all}
    /\ last' = Call("SetStream", stream_type, <<>>, "", "", 0, <<>>)
    /\ UNCHANGED <<cout, cerr, log_file, openable>>

SetStream(stream_type) ==
    /\ Running
    /\ stream_type_' = stream_type
    /\ last' = Call("SetStream", stream_type, <<>>, "", "", 0, <<>>)
    /\ UNCHANGED <<log_type_, cout, cerr, log_file, openable>>

\* variant: log_type_.clear() is missing
SetLogType_Additive(log_type_list) ==
    /\ Running
    /\ log_type_' = InsertAll(log_type_, log_type_list)
    /\ last' = Call("SetLogType", NONE, log_type_list, "", "", 0, <<>>)
    /\ UNCHANGED <<stream_type_, cout, cerr, log_file, openable>>

SetLogType(log_type_list) ==
    /\ Running
    /\ log_type_' = InsertAll({}, log_type_list)
    /\ last' = Call("SetLogType", NONE, log_type_list, "", "", 0, <<>>)
    /\ UNCHANGED <<stream_type_, cout, cerr, log_file, openable>>

(* the early return at the head of each emit call *)

InfoFiltered == ~(info \in log_type_) /\ ~(all \in log_type_)

\* variant: the test for the All category is missing
DebugFiltered_IgnoresAll == ~(debug \in log_type_)

DebugFiltered == ~(debug \in log_type_) /\ ~(all \in log_type_)

ErrorFiltered == ~(error \in log_type_) /\ ~(all \in log_type_)

\* variant: an empty set is taken to mean "not configured"
SuccessFiltered_EmptyMeansAll ==
    log_type_ # {} /\ ~(success \in log_type_) /\ ~(all \in log_type_)

SuccessFiltered == ~(success \in log_type_) /\ ~(all \in log_type_)

(* the argument packs each emit call hands to LogRecursive *)

DebugConsoleItems(function_name, args) ==
    <<Text(debug_type_color), Text(function_name), Text(":")>> \o args

DebugFileItems(now, function_name, args) ==
    <<CurrentTime(now), Text(debug_type), Text(function_name), Text(":")>> \o args

ErrorConsoleItems(file_name, function_name, line, args) ==
    <<Text(error_type_color), Text(file_name), Text(":"), Num(line), Text(":"),
      Text(function_name), Text(":")>> \o args

ErrorFileItems(now, file_name, function_name, line, args) ==
    <<CurrentTime(now), Text(error_type), Num(line), Text(":"),
      Text(function_name), Text(":")>> \o args

SuccessConsoleItems(function_name) ==
    <<Text(success_type_color), Text(function_name)>>

SuccessFileItems(now, function_name) ==
    <<CurrentTime(now), Text(success_type), Text(function_name)>>

\* variant: the file is opened without std::ios_base::app
LogInfo_Truncates(args) ==
    /\ Running
    /\ last' = Call("LogInfo", NONE, <<>>, "", "", 0, args)
    /\ IF InfoFiltered
       THEN UNCHANGED <<cout, cerr, log_file>>
       ELSE CASE stream_type_ = console ->
                   /\ cout' = LogRecursive(cout, args)
                   /\ UNCHANGED <<cerr, log_file>>
              [] stream_type_ = file ->
                   /\ IF is_open
                      THEN log_file' = LogRecursive(<<>>, args)
                      ELSE UNCHANGED log_file
                   /\ UNCHANGED <<cout, cerr>>
              [] OTHER -> UNCHANGED <<cout, cerr, log_file>>
    /\ UNCHANGED <<stream_type_, log_type_, openable>>

LogInfo(args) ==
    /\ Running
    /\ last' = Call("LogInfo", NONE, <<>>, "", "", 0, args)
    /\ IF InfoFiltered
       THEN UNCHANGED <<cout, cerr, log_file>>
       ELSE CASE stream_type_ = console ->
                   /\ cout' = LogRecursive(cout, args)
                   /\ UNCHANGED <<cerr, log_file>>
              [] stream_type_ = file ->
                   /\ IF is_open
                      THEN log_file' = LogRecursive(log_file, args)
                      ELSE UNCHANGED log_file
                   /\ UNCHANGED <<cout, cerr>>
              [] OTHER -> UNCHANGED <<cout, cerr, log_file>>
    /\ UNCHANGED <<stream_type_, log_type_, openable>>

LogDebug(function_name, args) ==
    /\ Running
    /\ last' = Call("LogDebug", NONE, <<>>, "", function_name, 0, args)
    /\ IF DebugFiltered
       THEN UNCHANGED <<cout, cerr, log_file>>
       ELSE CASE stream_type_ = console ->
                   /\ cout' = LogRecursive(cout, DebugConsoleItems(function_name, args))
                   /\ UNCHANGED <<cerr, log_file>>
              [] stream_type_ = file ->
                   /\ IF is_open
                      THEN \E now \in Clock :
                              log_file' = LogRecursive(log_file, DebugFileItems(now, function_name, args))
                      ELSE UNCHANGED log_file
                   /\ UNCHANGED <<cout, cerr>>
              [] OTHER -> UNCHANGED <<cout, cerr, log_file>>
    /\ UNCHANGED <<stream_type_, log_type_, openable>>

\* variant: the console line goes to std::cout
LogError_ToStdout(file_name, function_name, line, args) ==
    /\ Running
    /\ last' = Call("LogError", NONE, <<>>, file_name, function_name, line, args)
    /\ IF ErrorFiltered
       THEN UNCHANGED <<cout, cerr, log_file>>
       ELSE CASE stream_type_ = console ->
                   /\ cout' = LogRecursive(cout, ErrorConsoleItems(file_name, function_name, line, args))
                   /\ UNCHANGED <<cerr, log_file>>
              [] stream_type_ = file ->
                   /\ IF is_open
                      THEN \E now \in Clock :
                              log_file' = LogRecursive(log_file, ErrorFileItems(now, file_name, function_name, line, args))
                      ELSE UNCHANGED log_file
                   /\ UNCHANGED <<cout, cerr>>
              [] OTHER -> UNCHANGED <<cout, cerr, log_file>>
    /\ UNCHANGED <<stream_type_, log_type_, openable>>

LogError(file_name, function_name, line, args) ==
    /\ Running
    /\ last' = Call("LogError", NONE, <<>>, file_name, function_name, line, args)
    /\ IF ErrorFiltered
       THEN UNCHANGED <<cout, cerr, log_file>>
       ELSE CASE stream_type_ = console ->
                   /\ cerr' = LogRecursive(cerr, ErrorConsoleItems(file_name, function_name, line, args))
                   /\ UNCHANGED <<cout, log_file>>
              [] stream_type_ = file ->
                   /\ IF is_open
                      THEN \E now \in Clock :
                              log_file' = LogRecursive(log_file, ErrorFileItems(now, file_name, function_name, line, args))
                      ELSE UNCHANGED log_file
                   /\ UNCHANGED <<cout, cerr>>
              [] OTHER -> UNCHANGED <<cout, cerr, log_file>>
    /\ UNCHANGED <<stream_type_, log_type_, openable>>

LogSuccess(function_name) ==
    /\ Running
    /\ last' = Call("LogSuccess", NONE, <<>>, "", function_name, 0, <<>>)
    /\ IF SuccessFiltered
       THEN UNCHANGED <<cout, cerr, log_file>>
       ELSE CASE stream_type_ = console ->
                   /\ cout' = LogRecursive(cout, SuccessConsoleItems(function_name))
                   /\ UNCHANGED <<cerr, log_file>>
              [] stream_type_ = file ->
                   /\ IF is_open
                      THEN \E now \in Clock :
                              log_file' = LogRecursive(log_file, SuccessFileItems(now, function_name))
                      ELSE UNCHANGED log_file
                   /\ UNCHANGED <<cout, cerr>>
              [] OTHER -> UNCHANGED <<cout, cerr, log_file>>
    /\ UNCHANGED <<stream_type_, log_type_, openable>>

Next ==
    \/ \E b \in BOOLEAN : Chmod(b)
    \/ \E stream_type \in StreamType : SetStream(stream_type)
    \/ \E log_type_list \in Lists : SetLogType(log_type_list)
    \/ \E args \in ArgPacks : LogInfo(args)
    \/ \E fn \in FunctionNames, args \in ArgPacks : LogDebug(fn, args)
    \/ \E fl \in FileNames, fn \in FunctionNames, ln \in LineNumbers, args \in ArgPacks :
          LogError(fl, fn, ln, args)
    \/ \E fn \in FunctionNames : LogSuccess(fn)

Spec == Init /\ [][Next]_vars

(* ======================= properties of the logger ====================== *)

EmitOps == {"LogInfo", "LogDebug", "LogSuccess", "LogError"}

CategoryOf(op) ==
    CASE op = "LogInfo" -> INFO
      [] op = "LogDebug" -> DEBUG
      [] op = "LogSuccess" -> SUCCESS
      [] OTHER -> ERROR

\* the category of op, or All, is in the active set
Passes(op) == CategoryOf(op) \in log_type_ \/ ALL \in log_type_

\* what a step appended to a stream, given that the old content is still its prefix
Extends(old, new) == Len(new) >= Len(old) /\ SubSeq(new, 1, Len(old)) = old
Segment(old, new) == SubSeq(new, Len(old) + 1, Len(new))
DropFirst(seq, n) == SubSeq(seq, n + 1, Len(seq))

\* exactly one line: its only "\n" is its last text
OneLine(seg) ==
    /\ Len(seg) >= 1
    /\ seg[Len(seg)] = "\n"
    /\ \A k \in 1..(Len(seg) - 1) : seg[k] # "\n"

\* the texts of the items, each followed by one space
RECURSIVE EachThenSpace(_)
EachThenSpace(items) ==
    IF items = <<>> THEN <<>>
    ELSE <<Insert(Head(items)), " ">> \o EachThenSpace(Tail(items))

\* the texts of the items with one space between neighbours
RECURSIVE JoinedBySpace(_)
JoinedBySpace(items) ==
    IF items = <<>> THEN <<>>
    ELSE IF Len(items) = 1 THEN <<Insert(Head(items))>>
    ELSE <<Insert(Head(items)), " ">> \o JoinedBySpace(Tail(items))

TimeTexts == {TimeText(t) : t \in Clock}
PlainTags == {error_type, debug_type, success_type}
ColorTags == {error_type_color, debug_type_color, success_type_color}
Contains(seq, texts) == \E k \in DOMAIN seq : seq[k] \in texts

OutputUnchanged == UNCHANGED <<cout, cerr, log_file>>

(* C1, as stated: an emit of category c produces output iff c or All is in  *)
(* the active set, and a filtered emit writes nothing and changes no state. *)
C1_Original ==
    [][last'.op \in EmitOps =>
          /\ (~OutputUnchanged) <=> Passes(last'.op)
          /\ ~Passes(last'.op) =>
                UNCHANGED <<cout, cerr, log_file, stream_type_, log_type_, openable>>]_vars

(* C1, amended: an emit of category c produces output iff c or All is in    *)
(* the active set AND the sink can take the line (the sink is Console, or   *)
(* it is File and the log file opens); a filtered emit writes nothing and   *)
(* changes no state.                                                        *)
C1_FilterDecidesOutput ==
    [][last'.op \in EmitOps =>
          /\ (~OutputUnchanged) <=>
                /\ Passes(last'.op)
                /\ stream_type_ = CONSOLE \/ (stream_type_ = FILE /\ openable)
          /\ ~Passes(last'.op) =>
                UNCHANGED <<cout, cerr, log_file, stream_type_, log_type_, openable>>]_vars

\* a LogDebug call was filtered out under the Console sink after output had been produced
C1_Witness ==
    /\ last.op = "LogDebug"
    /\ ~Passes("LogDebug")
    /\ stream_type_ = CONSOLE
    /\ cout # <<>>

(* C2: SetLogType is a full replace: after SetLogType(L) the active set is  *)
(* exactly the set of the elements of L, whatever it was before; and while  *)
(* the active set is {Debug}, LogError produces no output.                  *)
C2_SetLogTypeReplaces ==
    [][/\ last'.op = "SetLogType" =>
             log_type_' = {last'.list[k] : k \in DOMAIN last'.list}
       /\ (last'.op = "LogError" /\ log_type_ = {DEBUG}) => OutputUnchanged]_vars

\* SetLogType({Debug}) was called after errors had been logged under another set
C2_Witness ==
    /\ last.op = "SetLogType"
    /\ last.list = <<DEBUG>>
    /\ log_type_ = {DEBUG}
    /\ cerr # <<>>

(* C3: under the Console sink an enabled LogError writes its line to the    *)
(* error stream and nothing to standard output; an enabled LogInfo,         *)
(* LogDebug or LogSuccess writes its line to standard output and nothing to *)
(* the error stream; no Console-sink emit touches the log file.             *)
C3_ConsoleStreams ==
    [][(last'.op \in EmitOps /\ stream_type_ = CONSOLE) =>
          /\ log_file' = log_file
          /\ Passes(last'.op) =>
                IF last'.op = "LogError"
                THEN /\ cout' = cout
                     /\ Extends(cerr, cerr')
                     /\ OneLine(Segment(cerr, cerr'))
                ELSE /\ cerr' = cerr
                     /\ Extends(cout, cout')
                     /\ OneLine(Segment(cout, cout'))]_vars

\* an enabled LogError has written to the error stream under the Console sink
C3_Witness ==
    /\ last.op = "LogError"
    /\ stream_type_ = CONSOLE
    /\ Passes("LogError")
    /\ cerr # <<>>
    /\ cout # <<>>

(* C4: under the File sink, with the category enabled and the log file      *)
(* openable, an emit appends exactly one newline-terminated line: the old   *)
(* content is a prefix of the new content, what follows it is one line, and *)
(* the number of lines grows by one.                                        *)
C4_FileAppendsOneLine ==
    [][(last'.op \in EmitOps /\ stream_type_ = FILE /\ Passes(last'.op) /\ openable) =>
          /\ Extends(log_file, log_file')
          /\ OneLine(Segment(log_file, log_file'))
          /\ NumLines(log_file') = NumLines(log_file) + 1]_vars

\* an emit has appended a line to a log file that already held one
C4_Witness ==
    /\ last.op \in EmitOps
    /\ stream_type_ = FILE
    /\ Passes(last.op)
    /\ openable
    /\ NumLines(log_file) >= 2

(* C5: under the File sink with the log file not openable, every emit is a  *)
(* no-op: nothing is written anywhere and the configuration is unchanged.   *)
C5_UnopenableFileIsNoOp ==
    [][(last'.op \in EmitOps /\ stream_type_ = FILE /\ ~openable) =>
          UNCHANGED <<cout, cerr, log_file, stream_type_, log_type_>>]_vars

\* an enabled emit has been called under the File sink while the file could not be opened
C5_Witness ==
    /\ last.op \in EmitOps
    /\ Passes(last.op)
    /\ stream_type_ = FILE
    /\ ~openable

(* C6, as stated: for each of the four emit calls a line written under the  *)
(* File sink begins with the timestamp, followed by the plain category tag, *)
(* the caller metadata and the items; no Console line holds a timestamp and *)
(* no File line holds a colorized tag.                                      *)
C6_FileLineLayout ==
    [][last'.op \in EmitOps =>
          /\ log_file' # log_file =>
                LET seg == Segment(log_file, log_file') IN
                   /\ Len(seg) >= 4
                   /\ seg[1] \in TimeTexts
                   /\ seg[2] = " "
                   /\ seg[3] \in PlainTags
                   /\ seg[4] = " "
                   /\ ~Contains(seg, ColorTags)
          /\ cout' # cout => ~Contains(Segment(cout, cout'), TimeTexts)
          /\ cerr' # cerr => ~Contains(Segment(cerr, cerr'), TimeTexts)]_vars

(* C7, as stated: the caller metadata of a LogError line is composed the    *)
(* same way under the File sink as under the Console sink: file name, line  *)
(* number, function name (file:line:function), then the items in order.     *)
C7_ErrorMetadata ==
    [][last'.op = "LogError" =>
          LET c == last'
              meta == <<Text(c.file_name), Text(":"), Num(c.line), Text(":"),
                        Text(c.function_name), Text(":")>>
              tail == EachThenSpace(meta \o c.args) \o <<"\n">>
          IN /\ cerr' # cerr => DropFirst(Segment(cerr, cerr'), 2) = tail
             /\ log_file' # log_file => DropFirst(Segment(log_file, log_file'), 4) = tail]_vars

(* C8, as stated: under the Console sink with active set {Info}, LogInfo    *)
(* writes to stdout one line made of the items joined by single spaces and  *)
(* ended by a newline (LogInfo("a", 1) gives "a 1\n"), and LogDebug,        *)
(* LogSuccess and LogError produce no output.                               *)
C8_Original ==
    [][(last'.op \in EmitOps /\ stream_type_ = CONSOLE /\ log_type_ = {INFO}) =>
          IF last'.op = "LogInfo"
          THEN /\ cout' = cout \o JoinedBySpace(last'.args) \o <<"\n">>
               /\ UNCHANGED <<cerr, log_file>>
          ELSE OutputUnchanged]_vars

(* C8, amended: under the Console sink with active set {Info}, LogInfo      *)
(* writes to stdout one line made of the items in call order, EACH followed *)
(* by a single space, ended by a newline (LogInfo("a", 1) gives "a 1 \n"),  *)
(* with no tag, metadata or timestamp; LogDebug, LogSuccess and LogError    *)
(* produce no output.                                                       *)
C8_InfoLine ==
    [][(last'.op \in EmitOps /\ stream_type_ = CONSOLE /\ log_type_ = {INFO}) =>
          IF last'.op = "LogInfo"
          THEN /\ cout' = cout \o EachThenSpace(last'.args) \o <<"\n">>
               /\ UNCHANGED <<cerr, log_file>>
          ELSE OutputUnchanged]_vars

\* LogInfo("a", 1) has written its line to stdout under Console and {Info}
C8_Witness ==
    /\ last.op = "LogInfo"
    /\ last.args = <<Text("a"), Num(1)>>
    /\ stream_type_ = CONSOLE
    /\ log_type_ = {INFO}
    /\ Len(cout) >= 5
    /\ SubSeq(cout, Len(cout) - 4, Len(cout)) = <<"a", " ", "1", " ", "\n">>

(* C9: SetLogType({}) empties the active set, and while it is empty no emit *)
(* of any category under any sink produces output, and emits and SetStream  *)
(* leave it empty: only the next SetLogType call can change it.             *)
C9_EmptySetSilences ==
    [][/\ (last'.op = "SetLogType" /\ last'.list = <<>>) => log_type_' = {}
       /\ (log_type_ = {} /\ last'.op \in EmitOps) => OutputUnchanged
       /\ (log_type_ = {} /\ last'.op # "SetLogType") => log_type_' = {}]_vars

\* an emit has been called under the Console sink while the active set was empty
C9_Witness ==
    /\ log_type_ = {}
    /\ last.op \in EmitOps
    /\ stream_type_ = CONSOLE
    /\ openable

(* C10: every emit leaves the sink and the active set unchanged; SetStream  *)
(* sets the sink to its argument and leaves the active set unchanged;       *)
(* SetLogType leaves the sink unchanged; neither configuration call writes  *)
(* to stdout, stderr or the log file.                                       *)
C10_ConfigurationFrame ==
    [][/\ last'.op \in EmitOps => UNCHANGED <<stream_type_, log_type_>>
       /\ last'.op = "SetStream" =>
             /\ stream_type_' = last'.stream
             /\ UNCHANGED log_type_
             /\ OutputUnchanged
       /\ last'.op = "SetLogType" =>
             /\ UNCHANGED stream_type_
             /\ OutputUnchanged]_vars

\* SetStream(file) has been called while a non-default active set was in force
C10_Witness ==
    /\ last.op = "SetStream"
    /\ last.stream = FILE
    /\ stream_type_ = FILE
    /\ log_type_ = {ERROR}
    /\ cerr # <<>>
====
